---- MODULE Spec2Model ----
(***************************************************************************)
(* agecache: a thread-safe fixed-capacity LRU cache with max age, jitter    *)
(* and passive/active expiration (package agecache, type Cache).           *)
(*                                                                         *)
(* Every public method holds cache.mutex for its whole body, so one call   *)
(* is one atomic action.  The active reaper (deleteExpired) takes a        *)
(* snapshot of the keys and then locks once per key, so a sweep is one     *)
(* action for the snapshot and one action per checked key.  Time is an     *)
(* integer clock `now` (time.Now()); durations are integers.  SetMaxAge    *)
(* and SetMinAge validate before they lock: SpecConc splits them in two    *)
(* steps; SpecReaper runs the reaper under a fair scheduler.               *)
(***************************************************************************)
EXTENDS Integers, Sequences, FiniteSets, TLC

\* ------------------------------------------------------------------ bounds
\* Spec: every operation of the cache, on three keys.
MaxTime == 2          \* the clock runs from 0 to MaxTime
MaxAgeBound == 1      \* durations given to New / SetMaxAge / SetMinAge
MaxCapacity == 2      \* Config.Capacity ranges over 1..MaxCapacity
MaxSets == 3          \* Set is called while sets < MaxSets
MaxGets == 1          \* Get is called while gets < MaxGets
MaxEvictions == 1     \* EvictOldest is called while evictions < MaxEvictions

KeySet == {"k1", "k2", "k3"}
ValueSet == {"v1"}

\* SpecAge: writes, reads, the reaper and the clock, on two keys and two
\* values, with ages large enough for a jitter of more than zero.
AgeMaxTime == 4       \* the clock runs from 0 to AgeMaxTime
AgeMaxAge == 3        \* Config.MaxAge and Config.MinAge range over 0..AgeMaxAge
AgeMaxSets == 2       \* Set is called while sets < AgeMaxSets
AgeMaxGets == 1       \* Get is called while gets < AgeMaxGets

\* SpecConc: SetMaxAge and SetMinAge in several goroutines.
ConcMaxAge == 2       \* durations given to New / SetMaxAge / SetMinAge
ConcMaxPending == 2   \* calls waiting for the lock at one time
ConcMaxSets == 2      \* Set is called while sets < ConcMaxSets

\* SpecReaper: the active reaper under fair scheduling.
ReaperMaxTime == 3    \* the clock runs from 0 to ReaperMaxTime
ReaperMaxAge == 1     \* Config.MaxAge, Config.ExpirationInterval, SetMaxAge
ReaperMaxSets == 2    \* Set is called while sets < ReaperMaxSets

\* SpecStats: Stats snapshots between Set, Get and EvictOldest calls.
StatsMaxSets == 3       \* Set is called while sets < StatsMaxSets
StatsMaxGets == 2       \* Get is called while gets < StatsMaxGets
StatsMaxEvictions == 2  \* EvictOldest is called while evictions < StatsMaxEvictions
StatsMaxTime == 2       \* the clock runs from 0 to StatsMaxTime

\* SpecRand: Set with the random source of New and with the tests' mock.
RandMaxAge == 3         \* Config.MaxAge and Config.MinAge range over 0..RandMaxAge
RandMaxSets == 2        \* Set is called while sets < RandMaxSets
RandMaxGets == 1        \* Get is called while gets < RandMaxGets
RandMaxTime == 2        \* the clock runs from 0 to RandMaxTime

\* SpecJitterOff: caches whose MinAge was left unset.
JitterOffMaxAge == 2    \* Config.MaxAge and SetMaxAge(d) range over 0..JitterOffMaxAge
JitterOffMaxSets == 2   \* Set is called while sets < JitterOffMaxSets
JitterOffMaxGets == 1   \* Get is called while gets < JitterOffMaxGets
JitterOffMaxTime == 2   \* the clock runs from 0 to JitterOffMaxTime

\* SpecLock: the statements of the write-locked sections, one step each.
LockMaxSets == 2        \* a Set enters its section while sets < LockMaxSets
LockMaxGets == 1        \* a Get enters its section while gets < LockMaxGets
LockMaxEvictions == 1   \* EvictOldest enters while evictions < LockMaxEvictions
LockMaxAge == 1         \* Config.MaxAge ranges over 0..LockMaxAge
LockMaxTime == 2        \* the clock runs from 0 to LockMaxTime

AgeKeySet == {"k1", "k2"}
AgeValueSet == {"v1", "v2"}
Nil == "nil"
PassiveExpration == 0
ActiveExpiration == 1

VARIABLES
  capacity,            \* cache.capacity
  maxAge,              \* cache.maxAge
  minAge,              \* cache.minAge
  expirationType,      \* cache.expirationType
  expirationInterval,  \* cache.expirationInterval
  rand,                \* cache.rand: the RandGenerator in use
  sets, gets, hits, misses, evictions,   \* cache statistics
  items,               \* cache.items: the keys of the map
  evictionList,        \* cache.evictionList: entries, front (index 1) first;
                       \* an entry is [key, value, timestamp] and, as history,
                       \* setAt: the instant of the Set that wrote it
  now,                 \* the wall clock, time.Now()
  sweep,               \* the reaper: keys of its snapshot still to check
  onEvictionCalls,     \* number of invocations of cache.onEviction so far
  onExpirationCalls,   \* number of invocations of cache.onExpiration so far
  last,                \* the call that returned last: its arguments, results
                       \* and the callbacks it invoked
  pending,             \* SetMaxAge / SetMinAge calls of other goroutines that
                       \* have passed validation and wait for cache.mutex
  closed,              \* the owner has shut the cache down
  snapshot,            \* the Stats a caller holds from its latest Stats() call
  sweepAt,             \* history: the instant at which the reaper took the
                       \* key snapshot of its latest sweep
  section              \* cache.mutex and the call that holds it for writing:
                       \* its thread, method, arguments, position and results

config == <<capacity, expirationType, expirationInterval, rand>>
bounds == <<maxAge, minAge>>
stats == <<sets, gets, hits, misses, evictions>>
store == <<items, evictionList>>
hooks == <<onEvictionCalls, onExpirationCalls>>
world == <<pending, closed, snapshot, sweepAt, section>>
vars == <<capacity, maxAge, minAge, expirationType, expirationInterval,
          sets, gets, hits, misses, evictions, items, evictionList, now,
          sweep, onEvictionCalls, onExpirationCalls, last, pending, closed,
          rand, snapshot, sweepAt, section>>

\* ------------------------------------------------------- container/list
\* The list as a sequence: Front is index 1, Back is index Len.
PushFront(l, e) == <<e>> \o l

ListRemove(l, i) == SubSeq(l, 1, i - 1) \o SubSeq(l, i + 1, Len(l))

\* Faulty variant: the element is left where it is.
MoveToFrontStays(l, i) == l

\* Faulty variant: moving an entry to the front also restarts its age.
MoveToFrontRefreshes(l, i) == <<[l[i] EXCEPT !.timestamp = now]>> \o ListRemove(l, i)

\* list.MoveToFront: the element at position i becomes the front.
MoveToFront(l, i) == <<l[i]>> \o ListRemove(l, i)

\* The element cache.items[key] points to: the list position holding key.
Element(l, key) == CHOOSE i \in 1..Len(l) : l[i].key = key

ListKeys(l) == {l[i].key : i \in 1..Len(l)}

\* OrderedKeys: from the back (oldest) to the front (newest).
OrderedKeys(l) == [i \in 1..Len(l) |-> l[Len(l) + 1 - i].key]

\* ---------------------------------------------------------------- calls
\* op: the method; key, value, d: its arguments (d a duration); ok: the
\* boolean it returned (for SetMaxAge/SetMinAge: err == nil); ret: the value
\* it returned; calls: the callbacks it invoked, in order.
NoCall == [op |-> "none", key |-> Nil, value |-> Nil, d |-> 0, ok |-> FALSE,
           ret |-> Nil, calls |-> <<>>]

\* cache.mutex is free and no call is inside a write-locked section.
NoSection == [thread |-> Nil, op |-> "none", key |-> Nil, value |-> Nil,
              pc |-> "idle", ok |-> FALSE, ret |-> Nil, calls |-> <<>>]

Returned(op, key, value, ok, ret, calls) ==
  [op |-> op, key |-> key, value |-> value, d |-> 0, ok |-> ok, ret |-> ret,
   calls |-> calls]

Callback(hook, entry) == [hook |-> hook, key |-> entry.key, value |-> entry.value]

CountHook(calls, hook) == Cardinality({i \in 1..Len(calls) : calls[i].hook = hook})

\* -------------------------------------------------------------- helpers
\* Faulty variant: the element is unlinked but its key stays in the map.
deleteElementKeepsKey(st, i) ==
  [evictionList |-> ListRemove(st.evictionList, i), items |-> st.items]

\* deleteElement: unlink the element from the list and delete its key from
\* the map.  st is [items, evictionList]; i is the element's position.
deleteElement(st, i) ==
  [evictionList |-> ListRemove(st.evictionList, i),
   items |-> st.items \ {st.evictionList[i].key}]

\* Faulty variant: the eviction is not counted.
evictOldestUncounted(st) ==
  IF Len(st.evictionList) = 0
  THEN [st |-> st, evicted |-> FALSE, evictions |-> 0, calls |-> <<>>]
  ELSE [st |-> deleteElement(st, Len(st.evictionList)),
        evicted |-> TRUE,
        evictions |-> 0,
        calls |-> <<Callback("onEviction", st.evictionList[Len(st.evictionList)])>>]

\* Faulty variant: the front element is evicted instead of the back one.
evictOldestFront(st) ==
  IF Len(st.evictionList) = 0
  THEN [st |-> st, evicted |-> FALSE, evictions |-> 0, calls |-> <<>>]
  ELSE [st |-> deleteElement(st, 1),
        evicted |-> TRUE,
        evictions |-> 1,
        calls |-> <<Callback("onEviction", st.evictionList[1])>>]

\* evictOldest: delete the back element, count the eviction, call onEviction.
evictOldest(st) ==
  IF Len(st.evictionList) = 0
  THEN [st |-> st, evicted |-> FALSE, evictions |-> 0, calls |-> <<>>]
  ELSE [st |-> deleteElement(st, Len(st.evictionList)),
        evicted |-> TRUE,
        evictions |-> 1,
        calls |-> <<Callback("onEviction", st.evictionList[Len(st.evictionList)])>>]

\* Faulty variant: n itself can be returned.
IntnInclusive(n) == 0..n

\* rand.Intn(n): a value in [0, n); it panics for n <= 0, which leaves no
\* value to return.
Intn(n) == 0..(n - 1)

\* The implementations of RandGenerator in the repository: *rand.Rand, which
\* New installs, and the MockRandGenerator of the tests, whose Intn(n)
\* returns n.
MathRand == "rand.Rand"
MockRandGenerator == "MockRandGenerator"

\* cache.rand.Intn(n)
RandIntn(n) == IF rand = MockRandGenerator THEN {n} ELSE Intn(n)

\* getTimestamp: the timestamps a Set at `now` can record.
getTimestamp ==
  IF minAge = maxAge
  THEN {now}
  ELSE {now + randVal : randVal \in RandIntn(maxAge - minAge)}

\* Stats: the snapshot a Stats() call returns in the current state.
StatsResult ==
  [Capacity |-> capacity, Count |-> Len(evictionList), Sets |-> sets,
   Gets |-> gets, Hits |-> hits, Misses |-> misses, Evictions |-> evictions]

\* Faulty variant: Get never finds an entry expired.
GetFreshAlways(entry) == TRUE

\* The freshness tests, as written in Get, Has, Peek and deleteExpired.
GetFresh(entry) == maxAge = 0 \/ now - entry.timestamp <= maxAge
HasFresh(entry) == maxAge = 0 \/ now - entry.timestamp <= maxAge
PeekFresh(entry) == maxAge = 0 \/ now - entry.timestamp <= maxAge

\* Faulty variant: an entry exactly maxAge old is already deleted.
ReaperStaleAtMaxAge(entry) == maxAge > 0 /\ now - entry.timestamp >= maxAge

\* deleteExpired: maxAge > 0 && time.Since(entry.timestamp) > maxAge.
ReaperStale(entry) == maxAge > 0 /\ now - entry.timestamp > maxAge

\* Faulty variant: Count, too, is reported as a difference.
DeltaCountDifference(cur, previous) ==
  [Capacity |-> cur.Capacity,
   Count |-> cur.Count - previous.Count,
   Sets |-> cur.Sets - previous.Sets,
   Gets |-> cur.Gets - previous.Gets,
   Hits |-> cur.Hits - previous.Hits,
   Misses |-> cur.Misses - previous.Misses,
   Evictions |-> cur.Evictions - previous.Evictions]

\* Stats.Delta: cur.Delta(previous).  The fields are int64; the counters of a
\* snapshot lie in 0..2^63-1, so a difference of two of them does not wrap.
Delta(cur, previous) ==
  [Capacity |-> cur.Capacity,
   Count |-> cur.Count,
   Sets |-> cur.Sets - previous.Sets,
   Gets |-> cur.Gets - previous.Gets,
   Hits |-> cur.Hits - previous.Hits,
   Misses |-> cur.Misses - previous.Misses,
   Evictions |-> cur.Evictions - previous.Evictions]

\* ------------------------------------------------------------------ New
\* Faulty variant: a MinAge above MaxAge is let through.
NewPanicsMinAgeUnchecked(cfg) ==
  \/ cfg.Capacity <= 0
  \/ cfg.MaxAge < 0
  \/ cfg.MinAge < 0

\* The configurations New panics on.
NewPanics(cfg) ==
  \/ cfg.Capacity <= 0
  \/ cfg.MaxAge < 0
  \/ cfg.MinAge < 0
  \/ (cfg.MinAge > 0 /\ cfg.MinAge > cfg.MaxAge)

\* The cache New constructs from a configuration it accepts.
New(cfg) ==
  /\ ~NewPanics(cfg)
  /\ capacity = cfg.Capacity
  /\ maxAge = cfg.MaxAge
  /\ minAge = IF cfg.MinAge = 0 THEN cfg.MaxAge ELSE cfg.MinAge
  /\ expirationType = cfg.ExpirationType
  /\ expirationInterval =
       IF cfg.ExpirationInterval <= 0 THEN cfg.MaxAge ELSE cfg.ExpirationInterval
  /\ sets = 0 /\ gets = 0 /\ hits = 0 /\ misses = 0 /\ evictions = 0
  /\ items = {}
  /\ evictionList = <<>>
  /\ now = 0
  /\ sweep = {}
  /\ onEvictionCalls = 0
  /\ onExpirationCalls = 0
  /\ last = NoCall
  /\ pending = {}
  /\ closed = FALSE
  /\ rand = MathRand
  /\ snapshot = StatsResult
  /\ sweepAt = 0
  /\ section = NoSection

\* ------------------------------------------------------------------ Set
\* Faulty variant: the overwritten entry keeps its old timestamp.
OverwriteKeepsTimestamp(l, i, value, timestamp) ==
  [MoveToFront(l, i) EXCEPT ![1].value = value, ![1].setAt = now]

\* Faulty variant: the overwritten entry keeps its old value.
OverwriteKeepsValue(l, i, value, timestamp) ==
  [MoveToFront(l, i) EXCEPT ![1].timestamp = timestamp, ![1].setAt = now]

\* The branch of Set for a key already in the cache: MoveToFront, then the
\* entry's value and timestamp are overwritten in place.
Overwrite(l, i, value, timestamp) ==
  [MoveToFront(l, i) EXCEPT ![1].value = value,
                            ![1].timestamp = timestamp,
                            ![1].setAt = now]

Set(key, value) ==
  /\ \E timestamp \in getTimestamp :
       /\ sets' = sets + 1
       /\ IF key \in items
          THEN /\ evictionList' =
                    Overwrite(evictionList, Element(evictionList, key), value, timestamp)
               /\ items' = items
               /\ evictions' = evictions
               /\ onEvictionCalls' = onEvictionCalls
               /\ last' = Returned("Set", key, value, FALSE, Nil, <<>>)
          ELSE LET entry == [key |-> key, value |-> value, timestamp |-> timestamp,
                             setAt |-> now]
                   pushed == [evictionList |-> PushFront(evictionList, entry),
                              items |-> items \cup {key}]
                   evict == Len(pushed.evictionList) > capacity
                   r == IF evict THEN evictOldest(pushed)
                        ELSE [st |-> pushed, evicted |-> FALSE, evictions |-> 0,
                              calls |-> <<>>]
               IN /\ evictionList' = r.st.evictionList
                  /\ items' = r.st.items
                  /\ evictions' = evictions + r.evictions
                  /\ onEvictionCalls' = onEvictionCalls + CountHook(r.calls, "onEviction")
                  /\ last' = Returned("Set", key, value, evict, Nil, r.calls)
  /\ UNCHANGED <<config, world, bounds, gets, hits, misses, now, sweep, onExpirationCalls>>

\* ------------------------------------------------------------------ Get
Get(key) ==
  /\ gets' = gets + 1
  /\ IF key \in items
     THEN LET i == Element(evictionList, key)
              entry == evictionList[i]
          IN IF GetFresh(entry)
             THEN /\ evictionList' = MoveToFront(evictionList, i)
                  /\ items' = items
                  /\ hits' = hits + 1
                  /\ misses' = misses
                  /\ onExpirationCalls' = onExpirationCalls
                  /\ last' = Returned("Get", key, Nil, TRUE, entry.value, <<>>)
             ELSE LET st == deleteElement([evictionList |-> evictionList,
                                           items |-> items], i)
                  IN /\ evictionList' = st.evictionList
                     /\ items' = st.items
                     /\ hits' = hits
                     /\ misses' = misses + 1
                     /\ onExpirationCalls' = onExpirationCalls + 1
                     /\ last' = Returned("Get", key, Nil, FALSE, Nil,
                                         <<Callback("onExpiration", entry)>>)
     ELSE /\ misses' = misses + 1
          /\ hits' = hits
          /\ onExpirationCalls' = onExpirationCalls
          /\ last' = Returned("Get", key, Nil, FALSE, Nil, <<>>)
          /\ UNCHANGED store
  /\ UNCHANGED <<config, world, bounds, sets, evictions, now, sweep, onEvictionCalls>>

\* ------------------------------------------------------------------ Has
HasResult(key) ==
  IF key \in items
  THEN HasFresh(evictionList[Element(evictionList, key)])
  ELSE FALSE

\* Faulty variant: Has is counted as a Get.
HasCountsGet(key) ==
  /\ last' = Returned("Has", key, Nil, HasResult(key), Nil, <<>>)
  /\ gets' = gets + 1
  /\ hits' = IF HasResult(key) THEN hits + 1 ELSE hits
  /\ misses' = IF HasResult(key) THEN misses ELSE misses + 1
  /\ UNCHANGED <<config, world, bounds, sets, evictions, store, now, sweep, hooks>>

Has(key) ==
  /\ last' = Returned("Has", key, Nil, HasResult(key), Nil, <<>>)
  /\ UNCHANGED <<config, world, bounds, stats, store, now, sweep, hooks>>

\* ----------------------------------------------------------------- Peek
PeekResult(key) ==
  IF key \in items
  THEN LET entry == evictionList[Element(evictionList, key)]
       IN IF PeekFresh(entry)
          THEN [ok |-> TRUE, ret |-> entry.value]
          ELSE [ok |-> FALSE, ret |-> Nil]
  ELSE [ok |-> FALSE, ret |-> Nil]

\* Faulty variant: a Peek that finds the key marks it most recently used.
PeekTouches(key) ==
  /\ last' = Returned("Peek", key, Nil, PeekResult(key).ok, PeekResult(key).ret, <<>>)
  /\ evictionList' = IF PeekResult(key).ok
                     THEN MoveToFront(evictionList, Element(evictionList, key))
                     ELSE evictionList
  /\ UNCHANGED <<config, world, bounds, stats, items, now, sweep, hooks>>

Peek(key) ==
  /\ last' = Returned("Peek", key, Nil, PeekResult(key).ok, PeekResult(key).ret, <<>>)
  /\ UNCHANGED <<config, world, bounds, stats, store, now, sweep, hooks>>

\* --------------------------------------------------------------- Remove
\* Faulty variant: an explicit Remove is reported to onEviction.
RemoveEvicts(key) ==
  /\ IF key \in items
     THEN LET i == Element(evictionList, key)
              st == deleteElement([evictionList |-> evictionList, items |-> items], i)
          IN /\ evictionList' = st.evictionList
             /\ items' = st.items
             /\ onEvictionCalls' = onEvictionCalls + 1
             /\ last' = Returned("Remove", key, Nil, TRUE, Nil,
                                 <<Callback("onEviction", evictionList[i])>>)
     ELSE /\ last' = Returned("Remove", key, Nil, FALSE, Nil, <<>>)
          /\ UNCHANGED <<store, onEvictionCalls>>
  /\ UNCHANGED <<config, world, bounds, stats, now, sweep, onExpirationCalls>>

Remove(key) ==
  /\ IF key \in items
     THEN LET st == deleteElement([evictionList |-> evictionList, items |-> items],
                                  Element(evictionList, key))
          IN /\ evictionList' = st.evictionList
             /\ items' = st.items
             /\ last' = Returned("Remove", key, Nil, TRUE, Nil, <<>>)
     ELSE /\ last' = Returned("Remove", key, Nil, FALSE, Nil, <<>>)
          /\ UNCHANGED store
  /\ UNCHANGED <<config, world, bounds, stats, now, sweep, hooks>>

\* ---------------------------------------------------------- EvictOldest
\* Faulty variant: EvictOldest reports an eviction on an empty cache too.
EvictOldestReportsTrue ==
  /\ LET r == evictOldest([evictionList |-> evictionList, items |-> items])
     IN /\ evictionList' = r.st.evictionList
        /\ items' = r.st.items
        /\ evictions' = evictions + r.evictions
        /\ onEvictionCalls' = onEvictionCalls + CountHook(r.calls, "onEviction")
        /\ last' = Returned("EvictOldest", Nil, Nil, TRUE, Nil, r.calls)
  /\ UNCHANGED <<config, world, bounds, sets, gets, hits, misses, now, sweep,
                 onExpirationCalls>>

EvictOldest ==
  /\ LET r == evictOldest([evictionList |-> evictionList, items |-> items])
     IN /\ evictionList' = r.st.evictionList
        /\ items' = r.st.items
        /\ evictions' = evictions + r.evictions
        /\ onEvictionCalls' = onEvictionCalls + CountHook(r.calls, "onEviction")
        /\ last' = Returned("EvictOldest", Nil, Nil, r.evicted, Nil, r.calls)
  /\ UNCHANGED <<config, world, bounds, sets, gets, hits, misses, now, sweep,
                 onExpirationCalls>>

\* ---------------------------------------------------------------- Clear
\* for _, val := range cache.items { cache.deleteElement(val) }
RECURSIVE ClearItems(_, _)
ClearItems(st, todo) ==
  IF todo = {} THEN st
  ELSE LET key == CHOOSE k \in todo : TRUE
       IN ClearItems(deleteElement(st, Element(st.evictionList, key)), todo \ {key})

\* Faulty variant: Clear empties the cache by evicting every entry.
ClearEvicts ==
  /\ items' = {}
  /\ evictionList' = <<>>
  /\ evictions' = evictions + Len(evictionList)
  /\ onEvictionCalls' = onEvictionCalls + Len(evictionList)
  /\ last' = Returned("Clear", Nil, Nil, FALSE, Nil,
                      [i \in 1..Len(evictionList) |->
                         Callback("onEviction", evictionList[Len(evictionList) + 1 - i])])
  /\ UNCHANGED <<config, world, bounds, sets, gets, hits, misses, now, sweep,
                 onExpirationCalls>>

Clear ==
  /\ LET st == ClearItems([evictionList |-> evictionList, items |-> items], items)
     IN /\ items' = st.items
        /\ evictionList' = <<>>          \* cache.evictionList.Init()
  /\ last' = Returned("Clear", Nil, Nil, FALSE, Nil, <<>>)
  /\ UNCHANGED <<config, world, bounds, stats, now, sweep, hooks>>

\* ------------------------------------------------ Len, Keys, OrderedKeys
\* Len, Keys and OrderedKeys read the cache under the read lock and change
\* nothing; each is the value a call returns in the current state.
LenResult == Len(evictionList)

\* Keys: a slice of len(cache.items) slots filled in map iteration order,
\* which is unspecified: every arrangement of the keys is a possible result.
KeysResults ==
  {keys \in [1..Cardinality(items) -> items] :
     \A i, j \in 1..Cardinality(items) : keys[i] = keys[j] => i = j}

\* Faulty variant: the list is walked from Front with Next.
OrderedKeysNewestFirst ==
  [i \in 1..Cardinality(items) |->
     IF i <= Len(evictionList) THEN evictionList[i].key ELSE Nil]

\* OrderedKeys: a slice of len(cache.items) slots filled by walking the list
\* from Back with Prev; slots the walk does not reach stay nil.
OrderedKeysResult ==
  [i \in 1..Cardinality(items) |->
     IF i <= Len(evictionList) THEN evictionList[Len(evictionList) + 1 - i].key
     ELSE Nil]

\* ------------------------------------------------- SetMaxAge, SetMinAge
\* The validation reads cache.minAge / cache.maxAge; the write is under the
\* lock.  Here a call runs without another call in between.
SetMaxAgeError(d) == d < 0 \/ d < minAge

SetMaxAge(d) ==
  /\ IF SetMaxAgeError(d)
     THEN /\ maxAge' = maxAge
          /\ last' = [NoCall EXCEPT !.op = "SetMaxAge", !.d = d, !.ok = FALSE]
     ELSE /\ maxAge' = d
          /\ last' = [NoCall EXCEPT !.op = "SetMaxAge", !.d = d, !.ok = TRUE]
  /\ UNCHANGED <<config, world, minAge, stats, store, now, sweep, hooks>>

SetMinAgeError(d) == d < 0 \/ d > maxAge

\* Faulty variant: SetMinAge(0) stores 0 instead of the current maxAge.
SetMinAgeStoresZero(d) ==
  /\ IF SetMinAgeError(d)
     THEN /\ minAge' = minAge
          /\ last' = [NoCall EXCEPT !.op = "SetMinAge", !.d = d, !.ok = FALSE]
     ELSE /\ minAge' = d
          /\ last' = [NoCall EXCEPT !.op = "SetMinAge", !.d = d, !.ok = TRUE]
  /\ UNCHANGED <<config, world, maxAge, stats, store, now, sweep, hooks>>

SetMinAge(d) ==
  /\ IF SetMinAgeError(d)
     THEN /\ minAge' = minAge
          /\ last' = [NoCall EXCEPT !.op = "SetMinAge", !.d = d, !.ok = FALSE]
     ELSE /\ minAge' = IF d = 0 THEN maxAge ELSE d
          /\ last' = [NoCall EXCEPT !.op = "SetMinAge", !.d = d, !.ok = TRUE]
  /\ UNCHANGED <<config, world, maxAge, stats, store, now, sweep, hooks>>

\* --------------------------------------------------------- deleteExpired
\* New starts the reaper goroutine only for ActiveExpiration with a positive
\* interval; each tick of the interval runs deleteExpired.
ReaperRunning == expirationType = ActiveExpiration /\ expirationInterval > 0

\* keys := cache.Keys()
ReaperStart ==
  /\ ReaperRunning
  /\ sweep = {}
  /\ sweep' = items
  /\ sweepAt' = now
  /\ last' = NoCall
  /\ UNCHANGED <<config, pending, closed, snapshot, section, bounds, stats, store,
                 now, hooks>>

\* Faulty variant: a key of the snapshot that is still present is deleted
\* without looking at the age its entry has at the check.
ReaperCheckSnapshot(key) ==
  /\ key \in sweep
  /\ sweep' = sweep \ {key}
  /\ IF key \in items
     THEN LET i == Element(evictionList, key)
              st == deleteElement([evictionList |-> evictionList, items |-> items], i)
          IN /\ evictionList' = st.evictionList
             /\ items' = st.items
             /\ onExpirationCalls' = onExpirationCalls + 1
             /\ last' = Returned("deleteExpired", key, Nil, TRUE, Nil,
                                 <<Callback("onExpiration", evictionList[i])>>)
     ELSE /\ last' = Returned("deleteExpired", key, Nil, FALSE, Nil, <<>>)
          /\ UNCHANGED <<store, onExpirationCalls>>
  /\ UNCHANGED <<config, world, bounds, stats, now, onEvictionCalls>>

\* One iteration of the loop over keys, under the lock.
ReaperCheck(key) ==
  /\ key \in sweep
  /\ sweep' = sweep \ {key}
  /\ IF key \in items /\ ReaperStale(evictionList[Element(evictionList, key)])
     THEN LET i == Element(evictionList, key)
              st == deleteElement([evictionList |-> evictionList, items |-> items], i)
          IN /\ evictionList' = st.evictionList
             /\ items' = st.items
             /\ onExpirationCalls' = onExpirationCalls + 1
             /\ last' = Returned("deleteExpired", key, Nil, TRUE, Nil,
                                 <<Callback("onExpiration", evictionList[i])>>)
     ELSE /\ last' = Returned("deleteExpired", key, Nil, FALSE, Nil, <<>>)
          /\ UNCHANGED <<store, onExpirationCalls>>
  /\ UNCHANGED <<config, world, bounds, stats, now, onEvictionCalls>>

\* ----------------------------------------------------------------- Tick
\* The clock advances between calls; the call that returned last is then
\* no longer the latest event.
Tick ==
  /\ now' = now + 1
  /\ last' = NoCall
  /\ UNCHANGED <<config, world, bounds, stats, store, sweep, hooks>>

\* ----------------------------------------------------------------- Spec
Configs ==
  [Capacity : 0..MaxCapacity, MaxAge : -1..MaxAgeBound, MinAge : -1..MaxAgeBound,
   ExpirationType : {PassiveExpration, ActiveExpiration},
   ExpirationInterval : {0}]

Init == \E cfg \in Configs : New(cfg)

Next ==
  \/ sets < MaxSets /\ \E key \in KeySet, value \in ValueSet : Set(key, value)
  \/ gets < MaxGets /\ \E key \in KeySet : Get(key)
  \/ \E key \in KeySet : Has(key)
  \/ \E key \in KeySet : Peek(key)
  \/ \E key \in KeySet : Remove(key)
  \/ evictions < MaxEvictions /\ EvictOldest
  \/ Clear
  \/ \E d \in -1..MaxAgeBound : SetMaxAge(d)
  \/ \E d \in -1..MaxAgeBound : SetMinAge(d)
  \/ ReaperStart
  \/ \E key \in KeySet : ReaperCheck(key)
  \/ now < MaxTime /\ Tick

Spec == Init /\ [][Next]_vars

\* -------------------------------------------------------------- SpecAge
AgeConfigs ==
  [Capacity : {2}, MaxAge : 0..AgeMaxAge, MinAge : 0..AgeMaxAge,
   ExpirationType : {PassiveExpration, ActiveExpiration},
   ExpirationInterval : {0}]

InitAge == \E cfg \in AgeConfigs : New(cfg)

NextAge ==
  \/ sets < AgeMaxSets /\ \E key \in AgeKeySet, value \in AgeValueSet : Set(key, value)
  \/ gets < AgeMaxGets /\ \E key \in AgeKeySet : Get(key)
  \/ \E key \in AgeKeySet : Has(key)
  \/ \E key \in AgeKeySet : Peek(key)
  \/ ReaperStart
  \/ \E key \in AgeKeySet : ReaperCheck(key)
  \/ now < AgeMaxTime /\ Tick

SpecAge == InitAge /\ [][NextAge]_vars

\* ------------------------------------------------------------- SpecConc
\* SetMaxAge and SetMinAge called from several goroutines.  A call validates
\* its argument against cache.minAge / cache.maxAge before it takes
\* cache.mutex, and writes under the mutex: two steps, with the steps of
\* other calls in between.
Pending(op, d) == [op |-> op, d |-> d]

\* SetMaxAge up to the Lock: return the error, or go on to wait for the lock.
SetMaxAgeValidate(d) ==
  /\ IF SetMaxAgeError(d)
     THEN /\ last' = [NoCall EXCEPT !.op = "SetMaxAge", !.d = d, !.ok = FALSE]
          /\ pending' = pending
     ELSE /\ pending' = pending \cup {Pending("SetMaxAge", d)}
          /\ last' = last
  /\ UNCHANGED <<config, bounds, stats, store, now, sweep, hooks, closed, snapshot, sweepAt,
                 section>>

\* SetMaxAge from the Lock on: cache.maxAge = maxAge; return nil.
SetMaxAgeLocked(call) ==
  /\ call \in pending /\ call.op = "SetMaxAge"
  /\ maxAge' = call.d
  /\ pending' = pending \ {call}
  /\ last' = [NoCall EXCEPT !.op = "SetMaxAge", !.d = call.d, !.ok = TRUE]
  /\ UNCHANGED <<config, minAge, stats, store, now, sweep, hooks, closed, snapshot, sweepAt,
                 section>>

\* SetMinAge up to the Lock.
SetMinAgeValidate(d) ==
  /\ IF SetMinAgeError(d)
     THEN /\ last' = [NoCall EXCEPT !.op = "SetMinAge", !.d = d, !.ok = FALSE]
          /\ pending' = pending
     ELSE /\ pending' = pending \cup {Pending("SetMinAge", d)}
          /\ last' = last
  /\ UNCHANGED <<config, bounds, stats, store, now, sweep, hooks, closed, snapshot, sweepAt,
                 section>>

\* SetMinAge from the Lock on: zero stores the maxAge read under the lock.
SetMinAgeLocked(call) ==
  /\ call \in pending /\ call.op = "SetMinAge"
  /\ minAge' = IF call.d = 0 THEN maxAge ELSE call.d
  /\ pending' = pending \ {call}
  /\ last' = [NoCall EXCEPT !.op = "SetMinAge", !.d = call.d, !.ok = TRUE]
  /\ UNCHANGED <<config, maxAge, stats, store, now, sweep, hooks, closed, snapshot, sweepAt,
                 section>>

ConcConfigs ==
  [Capacity : {2}, MaxAge : 0..ConcMaxAge, MinAge : 0..ConcMaxAge,
   ExpirationType : {PassiveExpration}, ExpirationInterval : {0}]

ConcCalls == {Pending(op, d) : op \in {"SetMaxAge", "SetMinAge"}, d \in 0..ConcMaxAge}

InitConc == \E cfg \in ConcConfigs : New(cfg)

NextConc ==
  \/ Cardinality(pending) < ConcMaxPending /\ \E d \in -1..ConcMaxAge : SetMaxAgeValidate(d)
  \/ Cardinality(pending) < ConcMaxPending /\ \E d \in -1..ConcMaxAge : SetMinAgeValidate(d)
  \/ \E call \in ConcCalls : SetMaxAgeLocked(call)
  \/ \E call \in ConcCalls : SetMinAgeLocked(call)
  \/ sets < ConcMaxSets /\ \E key \in AgeKeySet, value \in ValueSet : Set(key, value)

SpecConc == InitConc /\ [][NextConc]_vars

\* ----------------------------------------------------------- SpecReaper
\* The active reaper under a fair scheduler.  New starts the goroutine with
\* `for range time.Tick(interval)`: the ticker fires for ever, so a sweep that
\* can start does start and a key of the snapshot is checked in the end.
\* The owner's shutdown of the cache is an event of the cache's environment:
\* Cache has no method for it and the reaper loop reads nothing it could set.
Shutdown ==
  /\ ~closed
  /\ closed' = TRUE
  /\ UNCHANGED <<config, bounds, stats, store, now, sweep, hooks, last, pending,
                 snapshot, sweepAt, section>>

ReaperConfigs ==
  [Capacity : {2}, MaxAge : 0..ReaperMaxAge, MinAge : {0},
   ExpirationType : {ActiveExpiration},
   ExpirationInterval : 0..ReaperMaxAge]

InitReaper == \E cfg \in ReaperConfigs : New(cfg)

NextReaper ==
  \/ sets < ReaperMaxSets /\ \E key \in AgeKeySet, value \in ValueSet : Set(key, value)
  \/ \E d \in 0..ReaperMaxAge : SetMaxAge(d)
  \/ ReaperStart
  \/ \E key \in AgeKeySet : ReaperCheck(key)
  \/ now < ReaperMaxTime /\ Tick
  \/ Shutdown

ReaperFairness ==
  /\ WF_vars(ReaperStart)
  /\ \A key \in AgeKeySet : WF_vars(ReaperCheck(key))

SpecReaper == InitReaper /\ [][NextReaper]_vars /\ ReaperFairness

\* ------------------------------------------------------------ SpecStats
\* A caller that takes Stats() snapshots between Set, Get and EvictOldest
\* calls and keeps the latest one.
StatsCall ==
  /\ snapshot' = StatsResult
  /\ last' = [NoCall EXCEPT !.op = "Stats"]
  /\ UNCHANGED <<config, bounds, stats, store, now, sweep, hooks, pending, closed,
                 sweepAt, section>>

StatsConfigs ==
  [Capacity : 1..2, MaxAge : 0..1, MinAge : {0},
   ExpirationType : {PassiveExpration}, ExpirationInterval : {0}]

InitStats == \E cfg \in StatsConfigs : New(cfg)

NextStats ==
  \/ sets < StatsMaxSets /\ \E key \in AgeKeySet, value \in ValueSet : Set(key, value)
  \/ gets < StatsMaxGets /\ \E key \in AgeKeySet : Get(key)
  \/ evictions < StatsMaxEvictions /\ EvictOldest
  \/ StatsCall
  \/ now < StatsMaxTime /\ Tick

SpecStats == InitStats /\ [][NextStats]_vars

\* ------------------------------------------------------------- SpecRand
\* The cache with either RandGenerator: TestJitter replaces cache.rand by a
\* MockRandGenerator before it calls Set.
UseMock ==
  /\ rand = MathRand
  /\ rand' = MockRandGenerator
  /\ last' = NoCall
  /\ UNCHANGED <<capacity, expirationType, expirationInterval, bounds, stats,
                 store, now, sweep, hooks, world>>

RandConfigs ==
  [Capacity : {2}, MaxAge : 0..RandMaxAge, MinAge : 0..RandMaxAge,
   ExpirationType : {PassiveExpration}, ExpirationInterval : {0}]

InitRand == \E cfg \in RandConfigs : New(cfg)

NextRand ==
  \/ UseMock
  \/ sets < RandMaxSets /\ \E key \in AgeKeySet, value \in ValueSet : Set(key, value)
  \/ gets < RandMaxGets /\ \E key \in AgeKeySet : Get(key)
  \/ now < RandMaxTime /\ Tick

SpecRand == InitRand /\ [][NextRand]_vars

\* -------------------------------------------------------- SpecJitterOff
\* Caches constructed with MinAge unset (0) or equal to MaxAge, reconfigured
\* afterwards with SetMaxAge and with SetMinAge(0) only.
JitterOffConfigs ==
  {cfg \in [Capacity : {2}, MaxAge : 0..JitterOffMaxAge,
            MinAge : 0..JitterOffMaxAge,
            ExpirationType : {PassiveExpration}, ExpirationInterval : {0}] :
     cfg.MinAge = 0 \/ cfg.MinAge = cfg.MaxAge}

InitJitterOff == \E cfg \in JitterOffConfigs : New(cfg)

NextJitterOff ==
  \/ sets < JitterOffMaxSets /\ \E key \in AgeKeySet, value \in ValueSet : Set(key, value)
  \/ gets < JitterOffMaxGets /\ \E key \in AgeKeySet : Get(key)
  \/ \E d \in 0..JitterOffMaxAge : SetMaxAge(d)
  \/ SetMinAge(0)
  \/ now < JitterOffMaxTime /\ Tick

SpecJitterOff == InitJitterOff /\ [][NextJitterOff]_vars

\* -------------------------------------------------------------- SpecLock
\* The sections of Set, Get, EvictOldest and of one iteration of
\* deleteExpired statement by statement: cache.mutex.Lock(), the statements
\* up to the callback, the callback, Unlock (deferred in the public methods).
\* section.pc is the position of the lock holder: "body" after Lock,
\* "callback" while onEviction / onExpiration runs, "unlock" before Unlock.
\* Calls that take the lock and invoke no callback (Has, Peek under RLock,
\* Remove, the Keys() of the reaper) stay one step; they need the mutex free.
LockThreads == {"t1", "t2"}
ReaperThread == "reaper"

\* Faulty variant: Lock and RLock never wait.
MutexFreeAlways == TRUE

\* cache.mutex.Lock() and RLock() return only when no writer holds the mutex.
MutexFree == section.thread = Nil

Lock(t, op, key, value) ==
  /\ MutexFree
  /\ section' = [NoSection EXCEPT !.thread = t, !.op = op, !.key = key,
                                  !.value = value, !.pc = "body"]
  /\ UNCHANGED <<config, bounds, stats, store, now, sweep, hooks, last, pending,
                 closed, snapshot, sweepAt>>

\* The position after the statements before the callback: in the callback if
\* one is due, else at the Unlock.
Proceed(ok, ret, calls) ==
  [section EXCEPT !.pc = IF calls = <<>> THEN "unlock" ELSE "callback",
                  !.ok = ok, !.ret = ret, !.calls = calls]

SetLocked ==
  /\ section.op = "Set" /\ section.pc = "body"
  /\ \E timestamp \in getTimestamp :
       /\ sets' = sets + 1
       /\ IF section.key \in items
          THEN /\ evictionList' = Overwrite(evictionList,
                                            Element(evictionList, section.key),
                                            section.value, timestamp)
               /\ items' = items
               /\ evictions' = evictions
               /\ section' = Proceed(FALSE, Nil, <<>>)
          ELSE LET entry == [key |-> section.key, value |-> section.value,
                             timestamp |-> timestamp, setAt |-> now]
                   pushed == [evictionList |-> PushFront(evictionList, entry),
                              items |-> items \cup {section.key}]
                   evict == Len(pushed.evictionList) > capacity
                   r == IF evict THEN evictOldest(pushed)
                        ELSE [st |-> pushed, evicted |-> FALSE, evictions |-> 0,
                              calls |-> <<>>]
               IN /\ evictionList' = r.st.evictionList
                  /\ items' = r.st.items
                  /\ evictions' = evictions + r.evictions
                  /\ section' = Proceed(evict, Nil, r.calls)
  /\ UNCHANGED <<config, bounds, gets, hits, misses, now, sweep, hooks, last,
                 pending, closed, snapshot, sweepAt>>

GetLocked ==
  /\ section.op = "Get" /\ section.pc = "body"
  /\ gets' = gets + 1
  /\ IF section.key \in items
     THEN LET i == Element(evictionList, section.key)
              entry == evictionList[i]
          IN IF GetFresh(entry)
             THEN /\ evictionList' = MoveToFront(evictionList, i)
                  /\ items' = items
                  /\ hits' = hits + 1
                  /\ misses' = misses
                  /\ section' = Proceed(TRUE, entry.value, <<>>)
             ELSE LET st == deleteElement([evictionList |-> evictionList,
                                           items |-> items], i)
                  IN /\ evictionList' = st.evictionList
                     /\ items' = st.items
                     /\ hits' = hits
                     /\ misses' = misses + 1
                     /\ section' = Proceed(FALSE, Nil,
                                           <<Callback("onExpiration", entry)>>)
     ELSE /\ misses' = misses + 1
          /\ hits' = hits
          /\ section' = Proceed(FALSE, Nil, <<>>)
          /\ UNCHANGED store
  /\ UNCHANGED <<config, bounds, sets, evictions, now, sweep, hooks, last,
                 pending, closed, snapshot, sweepAt>>

EvictOldestLocked ==
  /\ section.op = "EvictOldest" /\ section.pc = "body"
  /\ LET r == evictOldest([evictionList |-> evictionList, items |-> items])
     IN /\ evictionList' = r.st.evictionList
        /\ items' = r.st.items
        /\ evictions' = evictions + r.evictions
        /\ section' = Proceed(r.evicted, Nil, r.calls)
  /\ UNCHANGED <<config, bounds, sets, gets, hits, misses, now, sweep, hooks,
                 last, pending, closed, snapshot, sweepAt>>

deleteExpiredLocked ==
  /\ section.op = "deleteExpired" /\ section.pc = "body"
  /\ sweep' = sweep \ {section.key}
  /\ IF section.key \in items
        /\ ReaperStale(evictionList[Element(evictionList, section.key)])
     THEN LET i == Element(evictionList, section.key)
              st == deleteElement([evictionList |-> evictionList, items |-> items], i)
          IN /\ evictionList' = st.evictionList
             /\ items' = st.items
             /\ section' = Proceed(TRUE, Nil,
                                   <<Callback("onExpiration", evictionList[i])>>)
     ELSE /\ section' = Proceed(FALSE, Nil, <<>>)
          /\ UNCHANGED store
  /\ UNCHANGED <<config, bounds, stats, now, hooks, last, pending, closed,
                 snapshot, sweepAt>>

\* cache.onEviction(entry.key, entry.value) / cache.onExpiration(...): the
\* callback runs from the state with pc = "callback" to this step, its return.
RunCallback ==
  /\ section.pc = "callback"
  /\ onEvictionCalls' = onEvictionCalls + CountHook(section.calls, "onEviction")
  /\ onExpirationCalls' = onExpirationCalls + CountHook(section.calls, "onExpiration")
  /\ section' = [section EXCEPT !.pc = "unlock"]
  /\ UNCHANGED <<config, bounds, stats, store, now, sweep, last, pending,
                 closed, snapshot, sweepAt>>

Unlock ==
  /\ section.pc = "unlock"
  /\ last' = Returned(section.op, section.key, section.value, section.ok,
                      section.ret, section.calls)
  /\ section' = NoSection
  /\ UNCHANGED <<config, bounds, stats, store, now, sweep, hooks, pending,
                 closed, snapshot, sweepAt>>

LockConfigs ==
  [Capacity : 1..2, MaxAge : 0..LockMaxAge, MinAge : {0},
   ExpirationType : {ActiveExpiration}, ExpirationInterval : {0}]

InitLock == \E cfg \in LockConfigs : New(cfg)

NextLock ==
  \/ sets < LockMaxSets /\ \E t \in LockThreads, key \in AgeKeySet, value \in ValueSet :
       Lock(t, "Set", key, value)
  \/ gets < LockMaxGets /\ \E t \in LockThreads, key \in AgeKeySet : Lock(t, "Get", key, Nil)
  \/ evictions < LockMaxEvictions /\ \E t \in LockThreads : Lock(t, "EvictOldest", Nil, Nil)
  \/ \E key \in sweep : Lock(ReaperThread, "deleteExpired", key, Nil)
  \/ SetLocked
  \/ GetLocked
  \/ EvictOldestLocked
  \/ deleteExpiredLocked
  \/ RunCallback
  \/ Unlock
  \/ MutexFree /\ \E key \in AgeKeySet : Has(key)
  \/ MutexFree /\ \E key \in AgeKeySet : Peek(key)
  \/ MutexFree /\ \E key \in AgeKeySet : Remove(key)
  \/ MutexFree /\ ReaperStart
  \/ now < LockMaxTime /\ Tick

SpecLock == InitLock /\ [][NextLock]_vars

\* =================================================================== claims
\* The entry stored under a key, and the list without a key.
EntryOf(key) == evictionList[Element(evictionList, key)]

Without(l, key) == SelectSeq(l, LAMBDA e : e.key # key)

\* isFresh of the specification: maxAge==0 || now - entry.timestamp <= maxAge.
IsFresh(entry) == maxAge = 0 \/ now - entry.timestamp <= maxAge

\* The entry a Set(key, value) leaves at the front.
IsNewFront(e, key, value) ==
  /\ e.key = key
  /\ e.value = value
  /\ e.setAt = now
  /\ e.timestamp \in getTimestamp

\* C1: after every call the index and the recency list hold exactly the same
\* keys, each key once, and their common size is at most the capacity.
C1_IndexMatchesList ==
  /\ items = ListKeys(evictionList)
  /\ Cardinality(items) = Len(evictionList)
  /\ Len(evictionList) <= capacity

\* A Set has just evicted from a full cache of two entries.
C1_Witness ==
  /\ last.op = "Set" /\ last.ok
  /\ Len(evictionList) = 2 /\ capacity = 2

\* C2: Set of a key not in the cache inserts it as most recently used; it
\* returns true iff the cache already held capacity entries, and then removes
\* exactly the least recently used of the entries present before (never the
\* new key), adds 1 to evictions and invokes onEviction once with that entry;
\* otherwise it removes nothing and invokes no callback.
C2_SetAbsentStep ==
  (last'.op = "Set" /\ last'.key \notin items) =>
    LET back == evictionList[Len(evictionList)]
    IN /\ IsNewFront(evictionList'[1], last'.key, last'.value)
       /\ last'.ok <=> (Len(evictionList) = capacity)
       /\ last'.ok =>
            /\ back.key # last'.key
            /\ items' = (items \cup {last'.key}) \ {back.key}
            /\ SubSeq(evictionList', 2, Len(evictionList')) =
                 SubSeq(evictionList, 1, Len(evictionList) - 1)
            /\ evictions' = evictions + 1
            /\ onEvictionCalls' = onEvictionCalls + 1
            /\ last'.calls = <<[hook |-> "onEviction", key |-> back.key,
                                value |-> back.value]>>
       /\ ~last'.ok =>
            /\ items' = items \cup {last'.key}
            /\ SubSeq(evictionList', 2, Len(evictionList')) = evictionList
            /\ evictions' = evictions
            /\ onEvictionCalls' = onEvictionCalls
            /\ last'.calls = <<>>
       /\ onExpirationCalls' = onExpirationCalls

C2_SetAbsent == [][C2_SetAbsentStep]_vars

\* A Set has evicted the older of two entries.
C2_Witness ==
  /\ last.op = "Set" /\ last.ok
  /\ Len(evictionList) = 2
  /\ last.calls # <<>>
  /\ evictions = 1

\* C3: a Get that hits moves the key to the most recently used position, the
\* others keeping their order; and an eviction, by Set or by EvictOldest,
\* removes no key while another entry is less recently used than it: the key
\* removed is the least recently used one.
C3_RecencyStep ==
  /\ (last'.op = "Get" /\ last'.ok) =>
       /\ evictionList'[1] = EntryOf(last'.key)
       /\ SubSeq(evictionList', 2, Len(evictionList')) = Without(evictionList, last'.key)
  /\ (last'.op \in {"Set", "EvictOldest"}) =>
       \A i \in 1..Len(evictionList) :
         i < Len(evictionList) => evictionList[i].key \in items'

C3_Recency == [][C3_RecencyStep]_vars

\* After a hit, a Set has evicted and two entries remain.
C3_Witness ==
  /\ hits > 0
  /\ last.op = "Set" /\ last.ok
  /\ Len(evictionList) = 2

\* C4: Get of a key that is present but stale removes the entry, invokes
\* onExpiration once with its key and value and not onEviction, adds 1 to
\* gets and to misses, leaves hits and evictions alone and returns not-found.
C4_GetStaleStep ==
  (last'.op = "Get" /\ last'.key \in items /\ ~IsFresh(EntryOf(last'.key))) =>
    /\ last'.key \notin items'
    /\ evictionList' = Without(evictionList, last'.key)
    /\ last'.calls = <<[hook |-> "onExpiration", key |-> last'.key,
                        value |-> EntryOf(last'.key).value]>>
    /\ onExpirationCalls' = onExpirationCalls + 1
    /\ onEvictionCalls' = onEvictionCalls
    /\ gets' = gets + 1
    /\ misses' = misses + 1
    /\ hits' = hits
    /\ evictions' = evictions
    /\ ~last'.ok
    /\ last'.ret = Nil

C4_GetStale == [][C4_GetStaleStep]_vars

\* A Get has found its key expired.
C4_Witness ==
  /\ last.op = "Get" /\ ~last.ok
  /\ last.calls # <<>>
  /\ misses = 1

\* The part of C5 that compares the four tests with isFresh: a present key
\* is found by Get, Has and Peek iff it is fresh, and a reaper check deletes
\* it iff it is not.
C5_SamePredicateStep ==
  /\ (last'.op \in {"Get", "Has", "Peek"} /\ last'.key \in items) =>
       (last'.ok <=> IsFresh(EntryOf(last'.key)))
  /\ (last'.op = "deleteExpired" /\ last'.key \in items) =>
       (last'.key \notin items' <=> ~IsFresh(EntryOf(last'.key)))

C5_SamePredicate == [][C5_SamePredicateStep]_vars

\* C5: Get, Has and Peek decide freshness with the same predicate, maxAge ==
\* 0 or now - timestamp <= maxAge, and the reaper deletes a key exactly when
\* it is false; so with maxAge == 0 no entry goes stale, and with maxAge = d >
\* 0 a key left for longer than d after its Set is found by none of the three.
C5_FreshnessStep ==
  /\ C5_SamePredicateStep
  /\ (last'.op \in {"Get", "Has", "Peek"} /\ last'.key \in items /\ maxAge = 0) =>
       last'.ok
  /\ (last'.op \in {"Get", "Has", "Peek"} /\ last'.key \in items
        /\ maxAge > 0 /\ now - EntryOf(last'.key).setAt > maxAge) =>
       ~last'.ok

C5_Freshness == [][C5_FreshnessStep]_vars

\* C7: MaxAge is the maximum duration before an item expires: a Get, Has or
\* Peek that finds a key, with maxAge > 0, happens no later than maxAge after
\* the Set that wrote the entry, whatever minAge and the jitter are.
C7_MaxAgeIsMaximum ==
  (last.op \in {"Get", "Has", "Peek"} /\ last.ok /\ maxAge > 0) =>
    now <= EntryOf(last.key).setAt + maxAge

\* C8: Set of a key already in the cache replaces its value, gives it a
\* timestamp computed at the time of the call, moves it to most recently
\* used, returns false, leaves Len and every other entry as they are, evicts
\* nothing and invokes no callback; only a Set of the key writes an entry's
\* value, and a Get of the key within maxAge of that Set returns the value.
C8_OverwriteStep ==
  /\ (last'.op = "Set" /\ last'.key \in items) =>
       /\ IsNewFront(evictionList'[1], last'.key, last'.value)
       /\ SubSeq(evictionList', 2, Len(evictionList')) = Without(evictionList, last'.key)
       /\ Len(evictionList') = Len(evictionList)
       /\ items' = items
       /\ ~last'.ok
       /\ last'.calls = <<>>
       /\ evictions' = evictions
       /\ UNCHANGED <<onEvictionCalls, onExpirationCalls>>
  /\ \A i \in 1..Len(evictionList') :
       LET e == evictionList'[i]
       IN (e.key \notin items \/ EntryOf(e.key).value # e.value
             \/ EntryOf(e.key).setAt # e.setAt) =>
            (last'.op = "Set" /\ last'.key = e.key /\ last'.value = e.value)
  /\ (last'.op = "Get" /\ last'.key \in items
        /\ (maxAge = 0 \/ now - EntryOf(last'.key).setAt <= maxAge)) =>
       /\ last'.ok
       /\ last'.ret = EntryOf(last'.key).value

C6_CallbackStep ==
  LET removed == items \ items'
      calls == last'.calls
      AllHook(hook) == \A i \in 1..Len(calls) : calls[i].hook = hook
  IN /\ Len(calls) <= 1
     /\ \A i \in 1..Len(calls) :
          /\ calls[i].key \in removed
          /\ calls[i].value = EntryOf(calls[i].key).value
     /\ last'.op \in {"Set", "EvictOldest"} =>
          /\ AllHook("onEviction")
          /\ Cardinality(removed) = Len(calls)
     /\ last'.op \in {"Get", "deleteExpired"} =>
          /\ AllHook("onExpiration")
          /\ Cardinality(removed) = Len(calls)
     /\ last'.op \in {"Remove", "Clear"} => calls = <<>>
     /\ last'.op \notin {"Set", "EvictOldest", "Get", "deleteExpired", "Remove", "Clear"} =>
          /\ calls = <<>>
          /\ removed = {}
     /\ onEvictionCalls' = onEvictionCalls + CountHook(calls, "onEviction")
     /\ onExpirationCalls' = onExpirationCalls + CountHook(calls, "onExpiration")
     /\ onEvictionCalls' = evictions'

C6_Callbacks == [][C6_CallbackStep]_vars

\* The reaper has expired an entry of a cache that has also evicted one.
C6_Witness ==
  /\ last.op = "deleteExpired" /\ last.ok
  /\ last.calls # <<>>
  /\ onEvictionCalls = 1
  /\ onExpirationCalls = 1

\* C9: Has and Peek change nothing, for a key present or absent, fresh or
\* stale: index, recency order, entries, counters and bounds stay as they are
\* and no callback is invoked; a stale entry is reported not-found and stays
\* in the cache, counted by Len and listed by Keys and OrderedKeys.
C9_ReadOnlyStep ==
  (last'.op \in {"Has", "Peek"}) =>
    /\ UNCHANGED <<items, evictionList>>
    /\ UNCHANGED <<sets, gets, hits, misses, evictions>>
    /\ UNCHANGED <<maxAge, minAge, capacity>>
    /\ UNCHANGED <<onEvictionCalls, onExpirationCalls>>
    /\ last'.calls = <<>>
    /\ (last'.key \in items /\ ~IsFresh(EntryOf(last'.key))) =>
         /\ ~last'.ok
         /\ last'.ret = Nil
         /\ last'.key \in items'
         /\ Len(evictionList') = Len(evictionList)
         /\ OrderedKeys(evictionList') = OrderedKeys(evictionList)

C9_ReadOnly == [][C9_ReadOnlyStep]_vars

\* A Peek has reported a stale entry not-found; the entry is still there,
\* behind a more recently used one.
C9_Witness ==
  /\ last.op = "Peek" /\ ~last.ok
  /\ Len(evictionList) = 2
  /\ evictionList[2].key = last.key

\* C10: Remove returns true iff the key was in the cache, fresh or stale;
\* afterwards the key is absent, every other entry keeps its value, timestamp
\* and relative order, no counter changes and no callback is invoked.
C10_RemoveStep ==
  (last'.op = "Remove") =>
    /\ last'.ok <=> (last'.key \in items)
    /\ items' = items \ {last'.key}
    /\ evictionList' = Without(evictionList, last'.key)
    /\ UNCHANGED <<sets, gets, hits, misses, evictions>>
    /\ UNCHANGED <<onEvictionCalls, onExpirationCalls>>
    /\ last'.calls = <<>>

C10_Remove == [][C10_RemoveStep]_vars

\* A Remove has deleted one of two entries.
C10_Witness ==
  /\ last.op = "Remove" /\ last.ok
  /\ Len(evictionList) = 1
  /\ last.key \notin items

\* C11: Clear removes every entry (Len is 0, Keys and OrderedKeys are empty,
\* no key is left for a Get to find), invokes no callback and leaves sets,
\* gets, hits, misses and evictions as they were; the cache stays usable: the
\* next Get misses and the next Set inserts its entry as the only one.
C11_ClearStep ==
  /\ last'.op = "Clear" =>
        /\ items' = {}
        /\ evictionList' = <<>>
        /\ Cardinality(items') = 0
        /\ OrderedKeys(evictionList') = <<>>
        /\ \A key \in items : key \notin items'
        /\ last'.calls = <<>>
        /\ UNCHANGED <<stats, hooks, config, bounds>>
  /\ (last.op = "Clear" /\ last'.op = "Get") =>
        /\ ~last'.ok
        /\ last'.ret = Nil
        /\ misses' = misses + 1
        /\ items' = {}
  /\ (last.op = "Clear" /\ last'.op = "Set") =>
        /\ items' = {last'.key}
        /\ Len(evictionList') = 1
        /\ IsNewFront(evictionList'[1], last'.key, last'.value)
        /\ sets' = sets + 1
        /\ last'.calls = <<>>

C11_Clear == [][C11_ClearStep]_vars

\* A Clear has returned on a cache that had been written to.
C11_Witness == last.op = "Clear" /\ sets >= 2 /\ evictions = 0 /\ items = {}

\* C12: EvictOldest on a non-empty cache removes exactly the least recently
\* used entry (the back of the list), adds 1 to evictions, invokes onEviction
\* once with that entry's key and value and returns true; on an empty cache
\* it returns false, invokes no callback and changes nothing.
C12_EvictOldestStep ==
  last'.op = "EvictOldest" =>
    IF evictionList # <<>>
    THEN LET oldest == evictionList[Len(evictionList)]
         IN /\ last'.ok
            /\ evictionList' = SubSeq(evictionList, 1, Len(evictionList) - 1)
            /\ items' = items \ {oldest.key}
            /\ evictions' = evictions + 1
            /\ last'.calls = <<Callback("onEviction", oldest)>>
            /\ onEvictionCalls' = onEvictionCalls + 1
            /\ UNCHANGED <<sets, gets, hits, misses, onExpirationCalls, config, bounds>>
    ELSE /\ ~last'.ok
         /\ last'.calls = <<>>
         /\ UNCHANGED <<config, bounds, stats, store, now, sweep, hooks>>

C12_EvictOldest == [][C12_EvictOldestStep]_vars

\* EvictOldest has evicted one of two entries.
C12_Witness ==
  /\ last.op = "EvictOldest" /\ last.ok
  /\ Len(evictionList) = 1
  /\ Len(last.calls) = 1 /\ last.calls[1].key \notin items
  /\ evictions = 1

\* C14: SetMaxAge(0) succeeds in every reachable state and disables
\* expiration: a SetMaxAge(0) that has returned returned no error and left
\* maxAge at 0, and while maxAge is 0 every present key is found by Get, Has
\* and Peek whatever its age and is not stale for the reaper.
C14_SetMaxAgeZero ==
  /\ (last.op = "SetMaxAge" /\ last.d = 0) => (last.ok /\ maxAge = 0)
  /\ maxAge = 0 =>
        \A key \in items :
          /\ GetFresh(EntryOf(key))
          /\ HasResult(key)
          /\ PeekResult(key).ok
          /\ ~ReaperStale(EntryOf(key))

\* C15: SetMaxAge(d) returns an error exactly for d negative or below the
\* current minAge, SetMinAge(d) exactly for d negative or above the current
\* maxAge; a call that returns an error leaves maxAge, minAge, the entries,
\* their order and the counters as they were; a call that succeeds changes
\* only its own bound: maxAge becomes d, minAge becomes d or, for d = 0, the
\* current maxAge.
C15_ReconfigureStep ==
  /\ last'.op = "SetMaxAge" =>
        /\ ~last'.ok <=> (last'.d < 0 \/ last'.d < minAge)
        /\ maxAge' = IF last'.ok THEN last'.d ELSE maxAge
        /\ UNCHANGED <<minAge, config, stats, store, hooks, now, sweep>>
        /\ last'.calls = <<>>
  /\ last'.op = "SetMinAge" =>
        /\ ~last'.ok <=> (last'.d < 0 \/ last'.d > maxAge)
        /\ minAge' = IF ~last'.ok THEN minAge
                     ELSE IF last'.d = 0 THEN maxAge ELSE last'.d
        /\ UNCHANGED <<maxAge, config, stats, store, hooks, now, sweep>>
        /\ last'.calls = <<>>

C15_Reconfigure == [][C15_ReconfigureStep]_vars

\* SetMinAge(0) has succeeded on a cache that expires entries and holds one.
C15_Witness ==
  /\ last.op = "SetMinAge" /\ last.ok /\ last.d = 0
  /\ maxAge > 0 /\ minAge = maxAge
  /\ items # {}

\* C17: every Set adds exactly 1 to sets; every Get adds exactly 1 to gets and
\* exactly 1 to one of hits and misses, to hits exactly when it returned a
\* value; no other operation changes sets, gets, hits or misses; no operation
\* decreases a counter; in every state gets = hits + misses and no counter is
\* negative.
C17_CounterStep ==
  /\ last'.op = "Set" =>
        sets' = sets + 1 /\ UNCHANGED <<gets, hits, misses>>
  /\ last'.op = "Get" =>
        /\ gets' = gets + 1
        /\ sets' = sets
        /\ IF last'.ok
           THEN hits' = hits + 1 /\ misses' = misses /\ last'.ret # Nil
           ELSE hits' = hits /\ misses' = misses + 1 /\ last'.ret = Nil
  /\ last'.op \notin {"Set", "Get"} => UNCHANGED <<sets, gets, hits, misses>>
  /\ sets' >= sets /\ gets' >= gets /\ hits' >= hits /\ misses' >= misses
  /\ evictions' >= evictions

C17_CountersConsistent ==
  /\ gets = hits + misses
  /\ sets >= 0 /\ gets >= 0 /\ hits >= 0 /\ misses >= 0 /\ evictions >= 0

C17_Counters == []C17_CountersConsistent /\ [][C17_CounterStep]_vars

\* A Get has hit after an insertion, an overwrite or an eviction by Set.
C17_Witness ==
  /\ last.op = "Get" /\ last.ok
  /\ gets = 1 /\ hits = 1 /\ misses = 0
  /\ sets > Cardinality(items)

\* C18: OrderedKeys returns every key of the cache exactly once, from least
\* to most recently used; Keys returns the same set of keys, and both have
\* length Len.  Recency is set only by a Set of the key or a Get that hit it:
\* such a call puts its key last in OrderedKeys, and no call changes the
\* relative order of two keys it did not touch.
Position(keys, key) == CHOOSE i \in DOMAIN keys : keys[i] = key

C18_KeysAgree ==
  /\ Len(OrderedKeysResult) = LenResult
  /\ \A key \in items :
       Cardinality({i \in DOMAIN OrderedKeysResult : OrderedKeysResult[i] = key}) = 1
  /\ \A i \in DOMAIN OrderedKeysResult : OrderedKeysResult[i] \in items
  /\ KeysResults # {}
  /\ \A keys \in KeysResults :
       /\ Len(keys) = LenResult
       /\ {keys[i] : i \in DOMAIN keys} =
            {OrderedKeysResult[i] : i \in DOMAIN OrderedKeysResult}

C18_OrderStep ==
  LET touched == IF last'.op = "Set" \/ (last'.op = "Get" /\ last'.ok)
                 THEN {last'.key} ELSE {}
  IN /\ \A key \in touched :
          OrderedKeysResult'[Len(OrderedKeysResult')] = key
     /\ \A a, b \in (items \cap items') \ touched :
          Position(OrderedKeysResult, a) < Position(OrderedKeysResult, b)
            <=> Position(OrderedKeysResult', a) < Position(OrderedKeysResult', b)

C18_OrderedKeys == []C18_KeysAgree /\ [][C18_OrderStep]_vars

\* A Get has hit the entry written earlier of two: OrderedKeys ends with the
\* key read.
C18_Witness ==
  /\ last.op = "Get" /\ last.ok
  /\ LenResult = 2
  /\ OrderedKeysResult[2] = last.key
  /\ evictionList[1].setAt < evictionList[2].setAt

\* C16: in every reachable state, also while and after SetMaxAge and SetMinAge
\* calls of different goroutines interleave, 0 <= minAge <= maxAge whenever
\* maxAge > 0, so that the jitter range maxAge - minAge of Set is not negative.
C16_BoundsOrdered ==
  maxAge > 0 => (0 <= minAge /\ minAge <= maxAge /\ maxAge - minAge >= 0)

\* C13: in a cache with ExpirationType Active, under a fair scheduler, every
\* entry that has become stale stops being a stale entry of the cache: unless
\* a Set refreshes it, it is removed, with onExpiration invoked for it and
\* without a Get of its key; this for every maxAge > 0, also one installed
\* by SetMaxAge after construction.
C13_Stale(key) == key \in items /\ ReaperStale(EntryOf(key))

C13_ExpiryStep ==
  \A key \in AgeKeySet :
    (C13_Stale(key) /\ key \notin items') =>
      (last'.op = "deleteExpired" /\ last'.calls = <<Callback("onExpiration", EntryOf(key))>>)

C13_ActiveExpiry ==
  /\ \A key \in AgeKeySet :
       (expirationType = ActiveExpiration /\ C13_Stale(key)) ~> ~C13_Stale(key)
  /\ [][C13_ExpiryStep]_vars

\* The same for the caches whose reaper goroutine New has started.
C13_WhenReaperRunning ==
  /\ \A key \in AgeKeySet :
       (ReaperRunning /\ C13_Stale(key)) ~> ~C13_Stale(key)
  /\ [][C13_ExpiryStep]_vars

\* C19: the active reaper can be stopped: once the cache is shut down, the
\* reaper loop terminates in the end and from then on starts no sweep, checks
\* no key, deletes nothing and invokes no onExpiration, whatever calls are
\* still made.
C19_ReaperStops ==
  (<>closed) => <>[][~(ReaperStart \/ \E key \in AgeKeySet : ReaperCheck(key))]_vars

\* C20: New panics, and no cache comes into existence, exactly when
\* capacity <= 0, maxAge < 0, minAge < 0, or minAge is nonzero and above
\* maxAge (a zero maxAge included); for every other configuration it
\* constructs a cache, which starts empty, with all counters 0, with the
\* configured capacity and maxAge, and with minAge equal to maxAge when MinAge
\* was given as 0.
C20_PanicsAmended(cfg) ==
  \/ cfg.Capacity <= 0
  \/ cfg.MaxAge < 0
  \/ cfg.MinAge < 0
  \/ (cfg.MinAge # 0 /\ cfg.MinAge > cfg.MaxAge)

\* The cache is one New returns: for a configuration the caller may give.
C20_StartsEmpty ==
  /\ items = {} /\ evictionList = <<>>
  /\ sets = 0 /\ gets = 0 /\ hits = 0 /\ misses = 0 /\ evictions = 0
  /\ onEvictionCalls = 0 /\ onExpirationCalls = 0

C20_Configured(cfg) ==
  /\ capacity = cfg.Capacity
  /\ maxAge = cfg.MaxAge
  /\ cfg.MinAge = 0 => minAge = maxAge
  /\ cfg.MinAge # 0 => minAge = cfg.MinAge
  /\ expirationType = cfg.ExpirationType

C20_New ==
  /\ C20_StartsEmpty
  /\ \E cfg \in Configs : ~C20_PanicsAmended(cfg) /\ C20_Configured(cfg)
  /\ [](\A cfg \in Configs : NewPanics(cfg) <=> C20_PanicsAmended(cfg))

\* C20 as stated: the fourth case only when minAge and maxAge are both
\* nonzero.
C20_PanicsAsClaimed(cfg) ==
  \/ cfg.Capacity <= 0
  \/ cfg.MaxAge < 0
  \/ cfg.MinAge < 0
  \/ (cfg.MinAge # 0 /\ cfg.MaxAge # 0 /\ cfg.MinAge > cfg.MaxAge)

C20_NewAsClaimed ==
  /\ C20_StartsEmpty
  /\ \E cfg \in Configs : ~C20_PanicsAsClaimed(cfg) /\ C20_Configured(cfg)
  /\ [](\A cfg \in Configs : NewPanics(cfg) <=> C20_PanicsAsClaimed(cfg))

\* A cache New has just constructed from a configuration with MaxAge > 0 and
\* MinAge 0.
C20_Witness ==
  /\ C20_StartsEmpty
  /\ last = NoCall /\ now = 0
  /\ maxAge > 0 /\ minAge = maxAge

\* C21: for two snapshots cur and prev, cur.Delta(prev) has sets, gets, hits,
\* misses and evictions equal to cur - prev field by field and capacity and
\* count equal to cur's; Stats().Count equals Len when the snapshot is taken;
\* and with only Set, Get and EvictOldest calls since prev was taken, each
\* difference is the number of such events since then: 0 right after the
\* snapshot, and each call adds its own events (a Set 1 to sets, a Get 1 to
\* gets and to hits or misses, each eviction 1 to evictions).
C21_FieldWise(d, cur, prev) ==
  /\ d.Sets = cur.Sets - prev.Sets
  /\ d.Gets = cur.Gets - prev.Gets
  /\ d.Hits = cur.Hits - prev.Hits
  /\ d.Misses = cur.Misses - prev.Misses
  /\ d.Evictions = cur.Evictions - prev.Evictions
  /\ d.Capacity = cur.Capacity
  /\ d.Count = cur.Count

C21_DeltaFields ==
  /\ C21_FieldWise(Delta(StatsResult, snapshot), StatsResult, snapshot)
  /\ C21_FieldWise(Delta(snapshot, StatsResult), snapshot, StatsResult)
  /\ StatsResult.Count = LenResult
  /\ StatsResult.Capacity = capacity

C21_Events(call) ==
  [Sets |-> IF call.op = "Set" THEN 1 ELSE 0,
   Gets |-> IF call.op = "Get" THEN 1 ELSE 0,
   Hits |-> IF call.op = "Get" /\ call.ok THEN 1 ELSE 0,
   Misses |-> IF call.op = "Get" /\ ~call.ok THEN 1 ELSE 0,
   Evictions |-> CountHook(call.calls, "onEviction")]

C21_DeltaStep ==
  LET before == Delta(StatsResult, snapshot)
      after == Delta(StatsResult', snapshot')
      events == C21_Events(last')
  IN IF last'.op = "Stats"
     THEN /\ after.Sets = 0 /\ after.Gets = 0 /\ after.Hits = 0
          /\ after.Misses = 0 /\ after.Evictions = 0
          /\ snapshot'.Count = LenResult
     ELSE /\ after.Sets = before.Sets + events.Sets
          /\ after.Gets = before.Gets + events.Gets
          /\ after.Hits = before.Hits + events.Hits
          /\ after.Misses = before.Misses + events.Misses
          /\ after.Evictions = before.Evictions + events.Evictions
          /\ after.Count = LenResult'
          /\ after.Capacity = capacity

C21_Delta == []C21_DeltaFields /\ [][C21_DeltaStep]_vars

\* Since a snapshot taken after the first Set there were two Sets, one of
\* them evicting, and a Get that missed.
C21_Witness ==
  /\ snapshot.Sets = 1 /\ snapshot.Count = 1
  /\ Delta(StatsResult, snapshot).Sets = 2
  /\ Delta(StatsResult, snapshot).Evictions = 1
  /\ Delta(StatsResult, snapshot).Gets = 1
  /\ Delta(StatsResult, snapshot).Misses = 1
  /\ Delta(StatsResult, snapshot).Count = StatsResult.Count

\* C22: when 0 < minAge < maxAge, a Set at instant t records the timestamp
\* t + j, where j is what cache.rand.Intn(maxAge - minAge) returned: with the
\* rand.Rand that New installs 0 <= j < maxAge - minAge; with the tests'
\* MockRandGenerator, whose Intn(n) returns n, j = maxAge - minAge; the
\* recorded timestamp is never earlier than t.
C22_Jitter(l) == l[1].timestamp - now

C22_JitterStep ==
  (last'.op = "Set" /\ 0 < minAge /\ minAge < maxAge) =>
    /\ evictionList'[1].key = last'.key
    /\ evictionList'[1].timestamp >= now
    /\ 0 <= C22_Jitter(evictionList')
    /\ rand = MathRand => C22_Jitter(evictionList') < maxAge - minAge
    /\ rand = MockRandGenerator => C22_Jitter(evictionList') = maxAge - minAge

C22_JitterRange == [][C22_JitterStep]_vars

\* C22 as stated: j stays below maxAge - minAge for whatever the random
\* source returns.
C22_JitterAsClaimedStep ==
  (last'.op = "Set" /\ 0 < minAge /\ minAge < maxAge) =>
    /\ evictionList'[1].key = last'.key
    /\ evictionList'[1].timestamp >= now
    /\ 0 <= C22_Jitter(evictionList')
    /\ C22_Jitter(evictionList') < maxAge - minAge

C22_JitterAsClaimed == [][C22_JitterAsClaimedStep]_vars

\* A Set with the mock as random source has recorded the instant of the Set
\* plus maxAge - minAge.
C22_Witness ==
  /\ last.op = "Set"
  /\ rand = MockRandGenerator
  /\ 0 < minAge /\ minAge < maxAge
  /\ evictionList[1].timestamp = evictionList[1].setAt + (maxAge - minAge)

\* C23: in every state reachable from a cache whose MinAge was unset at
\* construction, reset with SetMinAge(0), or equal to maxAge, including
\* after successful SetMaxAge calls, jitter is disabled: every entry's
\* timestamp is exactly the instant of the Set that wrote it, so the entry
\* is stale exactly when its age since that Set exceeds maxAge.
C23_JitterDisabled ==
  \A i \in 1..Len(evictionList) :
    /\ evictionList[i].timestamp = evictionList[i].setAt
    /\ ReaperStale(evictionList[i]) <=>
         (maxAge > 0 /\ now - evictionList[i].setAt > maxAge)

\* C24: in every interleaving of a reaper sweep with Set, Get and Remove
\* calls, (a) a key refreshed by Set after the reaper took its key snapshot
\* and still within maxAge of that Set at its check is not deleted by the
\* check and keeps its value, as is every key whose entry is not stale at
\* the check; (b) a key removed before its check is skipped; (c) an entry is
\* deleted as expired at most once: a step invokes onExpiration exactly once,
\* for a present stale entry that it removes, so Get and the reaper never
\* both expire the same entry, and expirations, evictions and the entries
\* still present never outnumber the Sets.
C24_Refreshed(key) ==
  /\ key \in items
  /\ \/ ~ReaperStale(EntryOf(key))
     \/ EntryOf(key).setAt > sweepAt /\ now - EntryOf(key).setAt <= maxAge

C24_CheckStep ==
  last'.op = "deleteExpired" =>
    /\ C24_Refreshed(last'.key) \/ last'.key \notin items =>
          /\ UNCHANGED <<store, hooks, stats>>
          /\ ~last'.ok
          /\ last'.calls = <<>>
    /\ last'.ok => last'.key \in items /\ ReaperStale(EntryOf(last'.key))

C24_ExpireStep ==
  onExpirationCalls' # onExpirationCalls =>
    /\ onExpirationCalls' = onExpirationCalls + 1
    /\ last'.op \in {"Get", "deleteExpired"}
    /\ last'.key \in items
    /\ ReaperStale(EntryOf(last'.key))
    /\ last'.calls = <<Callback("onExpiration", EntryOf(last'.key))>>
    /\ items' = items \ {last'.key}
    /\ evictionList' = Without(evictionList, last'.key)

C24_AtMostOnce ==
  onExpirationCalls + onEvictionCalls + Len(evictionList) <= sets

C25_StaleAtCheck(key) ==
  /\ key \in items
  /\ maxAge > 0
  /\ now - EntryOf(key).timestamp > maxAge

C25_CheckStep ==
  last'.op = "deleteExpired" =>
    LET key == last'.key
    IN /\ sweep' = sweep \ {key}
       /\ IF C25_StaleAtCheck(key)
          THEN /\ items' = items \ {key}
               /\ last'.calls = <<Callback("onExpiration", EntryOf(key))>>
               /\ onExpirationCalls' = onExpirationCalls + 1
               /\ evictionList' = Without(evictionList, key)
          ELSE /\ items' = items
               /\ last'.calls = <<>>
               /\ onExpirationCalls' = onExpirationCalls
               /\ evictionList' = evictionList
       /\ OrderedKeys(evictionList') =
            SelectSeq(OrderedKeys(evictionList), LAMBDA k : k \in items')
       /\ UNCHANGED <<stats, bounds, onEvictionCalls>>

C25_SweepStep ==
  sweep' # sweep =>
    /\ UNCHANGED stats
    /\ last'.op # "deleteExpired" => UNCHANGED <<store, hooks>>

C25_ReaperFrame == [][C25_CheckStep /\ C25_SweepStep]_vars

\* A check has expired one key and left another entry, one with a jittered
\* timestamp, in place.
C25_Witness ==
  /\ last.op = "deleteExpired" /\ last.ok
  /\ Len(evictionList) = 1
  /\ evictionList[1].timestamp > evictionList[1].setAt
  /\ onExpirationCalls = 1

\* C27: an entry's timestamp is written only by Set of its key: every other
\* step (Get, Has, Peek, Remove, EvictOldest, Clear, SetMaxAge, SetMinAge,
\* the reaper, the clock) leaves the timestamp of every entry that stays
\* unchanged; so while maxAge is unchanged an entry that is stale stays
\* stale, and Get, Has and Peek of its key report not found, until the next
\* Set of that key.
C27_Timestamp(l, key) == l[Element(l, key)].timestamp

C27_SetOf(key) == last'.op = "Set" /\ last'.key = key

C27_TimestampStep ==
  \A key \in items \cap items' :
    C27_Timestamp(evictionList', key) # C27_Timestamp(evictionList, key)
      => C27_SetOf(key)

C27_StaleStep ==
  \A key \in items :
    (~IsFresh(EntryOf(key)) /\ maxAge' = maxAge /\ ~C27_SetOf(key)) =>
      /\ key \in items' =>
            /\ maxAge' # 0
            /\ now' - C27_Timestamp(evictionList', key) > maxAge'
      /\ (last'.op \in {"Get", "Has", "Peek"} /\ last'.key = key) => ~last'.ok

C27_TimestampFrame == [][C27_TimestampStep /\ C27_StaleStep]_vars

\* A Get has hit an entry whose timestamp lies in the past: the hit has not
\* restarted its age.
C27_Witness ==
  /\ last.op = "Get" /\ last.ok
  /\ maxAge > 0
  /\ EntryOf(last.key).timestamp < now
  /\ EntryOf(last.key).timestamp = EntryOf(last.key).setAt

\* C28: Set(k, v) on a key whose entry is present but stale revives it in
\* place: the entry gets value v and a new timestamp, not before the current
\* instant, and becomes most-recently-used, the other entries keep their
\* order, Set returns false, Len is unchanged, neither onExpiration nor
\* onEviction is invoked, and misses and evictions (and gets and hits) do
\* not change.
C28_SetOnStale ==
  /\ last'.op = "Set"
  /\ last'.key \in items
  /\ ~IsFresh(EntryOf(last'.key))

C28_ReviveStep ==
  C28_SetOnStale =>
    /\ items' = items
    /\ Len(evictionList') = Len(evictionList)
    /\ evictionList'[1].key = last'.key
    /\ evictionList'[1].value = last'.value
    /\ evictionList'[1].setAt = now
    /\ evictionList'[1].timestamp \in getTimestamp
    /\ evictionList'[1].timestamp >= now
    /\ SubSeq(evictionList', 2, Len(evictionList')) = Without(evictionList, last'.key)
    /\ ~last'.ok
    /\ last'.calls = <<>>
    /\ sets' = sets + 1
    /\ UNCHANGED <<gets, hits, misses, evictions, hooks, bounds>>

C26_InCallback ==
  section.pc = "callback" =>
    /\ ~MutexFree
    /\ Len(section.calls) = 1
    /\ section.calls[1].key \notin items
    /\ section.calls[1].key \notin ListKeys(evictionList)
    /\ section.calls[1].hook =
         IF section.op \in {"Set", "EvictOldest"} THEN "onEviction" ELSE "onExpiration"
    /\ section.op = "Set" =>
         /\ section.key \in items
         /\ section.key # section.calls[1].key
         /\ evictionList[1].key = section.key
         /\ evictionList[1].value = section.value

C26_ExclusiveStep ==
  section.pc = "callback" =>
    /\ UNCHANGED <<store, stats, bounds, sweep, config>>
    /\ last' = last \/ (last' = NoCall /\ now' = now + 1)
    /\ \/ section' = section /\ UNCHANGED hooks
       \/ /\ section' = [section EXCEPT !.pc = "unlock"]
          /\ onEvictionCalls' + onExpirationCalls' =
               onEvictionCalls + onExpirationCalls + 1

\* The lock is released only after the callback has returned: a call that
\* returns with a callback in its record has passed through the callback
\* while holding the lock.
C26_UnlockStep ==
  (~MutexFree /\ section' = NoSection) =>
    /\ section.pc = "unlock"
    /\ last'.calls = section.calls
    /\ UNCHANGED <<store, stats, hooks>>

C26_CallbackUnderLock ==
  []C26_InCallback /\ [][C26_ExclusiveStep /\ C26_UnlockStep]_vars

\* onEviction is executing for the entry a Set has pushed out, while another
\* key of the reaper's snapshot still waits for its check.
C26_Witness ==
  /\ section.pc = "callback"
  /\ section.op = "Set"
  /\ section.calls[1].hook = "onEviction"
  /\ sweep # {}

====
